---- MODULE Spec2Model ----
(***************************************************************************)
(* Model of the graph core of graph-creator-python: Vertex.py, Graph.py    *)
(* and ShortestPathCalculator.py.                                          *)
(*                                                                         *)
(* Vertex objects are modelled as object handles (small integers); the id  *)
(* of a handle is IdOf(o).  Vertex.__eq__ compares ids, while `is` compares*)
(* handles, and the code uses both, so the model keeps them apart.         *)
(***************************************************************************)
EXTENDS Integers, Sequences, FiniteSets, TLC

\* ------------------------------------------------------------------------
\* Bounds of the model
\* ------------------------------------------------------------------------
\* Number of distinct vertex ids the caller uses in the mutation model.
NumIds == 3
\* Edge weights passed by the caller are 0..MaxWeight.
MaxWeight == 1
\* Longest argument list of one add_vertices call.
MaxBatch == 2
\* Number of calls (mutations and queries) in one run of the mutation model.
MaxOps == 4

\* ------------------------------------------------------------------------
\* Program constants
\* ------------------------------------------------------------------------
\* Test.py builds five vertices with ids 1..5.
TestN == 5

\* Python's None where an id is expected (ids are positive).
None == 0
\* An add_vertices argument that is not a Vertex instance.
NonVertex == 0

\* ------------------------------------------------------------------------
\* Vertex objects
\* ------------------------------------------------------------------------
\* First handle whose id repeats an id already used by another handle.
IdSpan == IF NumIds > TestN THEN NumIds ELSE TestN
\* All Vertex objects the caller ever constructs: one per id 1..IdSpan and a
\* second Vertex constructed with id 1 (Vertex(..., id=1) called twice).
Objs == 1..(IdSpan + 1)
\* The id a Vertex was constructed with (Vertex.__init__, self.id = id).
IdOf(o) == IF o > IdSpan THEN o - IdSpan ELSE o
\* The handles the mutation model passes around.
GenObjs == (1..NumIds) \cup {IdSpan + 1}
GenIds == 1..NumIds
Weights == 0..MaxWeight

\* A Vertex-or-int argument: <<"v", handle>> or <<"i", id>>.
VArg(o) == <<"v", o>>
IArg(n) == <<"i", n>>
GenArgs == {VArg(o) : o \in GenObjs} \cup {IArg(n) : n \in GenIds}
isinstance_int(x) == x[1] = "i"
ArgId(x) == IF x[1] = "v" THEN IdOf(x[2]) ELSE x[2]

VARIABLES
    vertices,       \* Graph.vertices: list of Vertex handles
    graph_weights,  \* Graph.weights: dict (id, id) -> weight, in insertion order
    adjacent,       \* Vertex.adjacent of every object: list of handles
    weights,        \* Vertex.weights of every object: dict id -> weight
    value,          \* Vertex.value of every object
    last,           \* the last call made and how it ended
    nops,           \* number of calls made so far
    visited,        \* ShortestPathCalculator.visited: set of ids
    unvisited,      \* ShortestPathCalculator.unvisited: set of ids
    distances,      \* ShortestPathCalculator.distances: dict id -> distance
    prev,           \* ShortestPathCalculator.prev: dict id -> id or None
    pc,             \* where the dijkstra call stands
    source,         \* the source argument of the dijkstra call (a handle)
    dest,           \* the dest argument of the dijkstra call (a handle)
    result          \* what the dijkstra call returned or raised

gvars == <<vertices, graph_weights, adjacent, weights, value, last, nops>>
dvars == <<visited, unvisited, distances, prev, pc, source, dest, result>>
vars == <<vertices, graph_weights, adjacent, weights, value, last, nops,
          visited, unvisited, distances, prev, pc, source, dest, result>>

\* ------------------------------------------------------------------------
\* Python containers
\* ------------------------------------------------------------------------
EmptyDict == [k \in {} |-> 0]
DictSet(d, k, v) == [x \in (DOMAIN d) \cup {k} |-> IF x = k THEN v ELSE d[x]]
DictDel(d, k) == [x \in (DOMAIN d) \ {k} |-> d[x]]

\* Vertex.__eq__: two Vertex objects are equal iff their ids match.
Eq(a, b) == IdOf(a) = IdOf(b)

\* `v in lst` for a list of vertices (identity or __eq__; identity implies __eq__).
InList(v, lst) == \E i \in 1..Len(lst) : Eq(lst[i], v)
\* Index of the first element equal to v.
FirstIndex(v, lst) == CHOOSE i \in 1..Len(lst) :
                         /\ Eq(lst[i], v)
                         /\ \A j \in 1..(i - 1) : ~Eq(lst[j], v)
RemoveAt(lst, i) == [j \in 1..(Len(lst) - 1) |-> IF j < i THEN lst[j] ELSE lst[j + 1]]
\* list.remove(v): drops the first element equal to v (caller checks InList).
ListRemove(lst, v) == RemoveAt(lst, FirstIndex(v, lst))

\* Graph.weights as an insertion-ordered dict: a sequence of <<key, weight>>.
GHas(g, k) == \E i \in 1..Len(g) : g[i][1] = k
GUpdate(g, k, w) ==
    IF GHas(g, k)
    THEN [i \in 1..Len(g) |-> IF g[i][1] = k THEN <<k, w>> ELSE g[i]]
    ELSE Append(g, <<k, w>>)
GKeys(g) == {g[i][1] : i \in 1..Len(g)}
GGet(g, k) == g[CHOOSE i \in 1..Len(g) : g[i][1] = k][2]
\* `a in k and b in k` for a tuple key k
KeyHasBoth(k, a, b) == (a = k[1] \/ a = k[2]) /\ (b = k[1] \/ b = k[2])

\* The per-vertex part of the heap, threaded through the Vertex methods.
Heap(a, w, o) == [adj |-> a, wts |-> w, out |-> o]
Raised == {"TypeError", "RuntimeError", "KeyError", "ValueError"}

\* ------------------------------------------------------------------------
\* Vertex.py
\* ------------------------------------------------------------------------
\* Vertex.is_adjacent(vertex) for a Vertex argument: `vertex in self.adjacent`.
is_adjacent(adj, self, vertex) == InList(vertex, adj[self])
\* Vertex.is_adjacent(n) for an int argument: `n in self.weights.keys()`.
is_adjacent_id(wts, self, n) == n \in DOMAIN wts[self]

\* Vertex.add_adjacent(self, vertex, weight) on heap h.
add_adjacent(h, self, vertex, w) ==
    IF Eq(self, vertex) \/ IdOf(vertex) \in DOMAIN h.wts[self]
    THEN Heap(h.adj, h.wts, "False")
    ELSE LET a1 == [h.adj EXCEPT ![self] = Append(@, vertex)]
             w1 == [h.wts EXCEPT ![self] = DictSet(@, IdOf(vertex), w)]
             a2 == [a1 EXCEPT ![vertex] = Append(@, self)]
             w2 == [w1 EXCEPT ![vertex] = DictSet(@, IdOf(self), w)]
         IN  Heap(a2, w2, "True")

\* Vertex.delete_adjacent(self, vertex) on heap h.  `del d[k]` raises KeyError
\* when k is absent and list.remove raises ValueError when no element is equal;
\* the heap returned with a raised outcome is the heap as the statement found it.
delete_adjacent(h, self, vertex) ==
    IF ~is_adjacent(h.adj, self, vertex)
    THEN Heap(h.adj, h.wts, "False")
    ELSE IF IdOf(vertex) \notin DOMAIN h.wts[self]
    THEN Heap(h.adj, h.wts, "KeyError")
    ELSE LET w1 == [h.wts EXCEPT ![self] = DictDel(@, IdOf(vertex))]
             a1 == [h.adj EXCEPT ![self] = ListRemove(@, vertex)]
         IN  IF IdOf(self) \notin DOMAIN w1[vertex]
             THEN Heap(a1, w1, "KeyError")
             ELSE LET w2 == [w1 EXCEPT ![vertex] = DictDel(@, IdOf(self))]
                  IN  IF ~InList(self, a1[vertex])
                      THEN Heap(a1, w2, "ValueError")
                      ELSE Heap([a1 EXCEPT ![vertex] = ListRemove(@, self)], w2, "True")

\* The loop of give: for each entry of self.adjacent in turn, self.value goes
\* down by one and the value of the entry up by one.
RECURSIVE give_loop(_, _, _, _)
give_loop(adj, val, self, i) ==
    IF i > Len(adj[self])
    THEN val
    ELSE LET v1 == [val EXCEPT ![self] = @ - 1]
             v2 == [v1 EXCEPT ![adj[self][i]] = @ + 1]
         IN  give_loop(adj, v2, self, i + 1)

\* Vertex.give(self)
give(adj, val, self) == give_loop(adj, val, self, 1)

\* take that adds the degree to self.value and forgets the neighbours.
take_self_only(adj, val, self) == [val EXCEPT ![self] = @ + Len(adj[self])]

\* The loop of take: for each entry of self.adjacent in turn, self.value goes up
\* by one and the value of the entry down by one.
RECURSIVE take_loop(_, _, _, _)
take_loop(adj, val, self, i) ==
    IF i > Len(adj[self])
    THEN val
    ELSE LET v1 == [val EXCEPT ![self] = @ + 1]
             v2 == [v1 EXCEPT ![adj[self][i]] = @ - 1]
         IN  take_loop(adj, v2, self, i + 1)

\* Vertex.take(self)
take(adj, val, self) == take_loop(adj, val, self, 1)

\* ------------------------------------------------------------------------
\* Graph.py: queries
\* ------------------------------------------------------------------------
\* Graph.contains_vertex(x): `x in self.vertices` for a Vertex (by __eq__, that
\* is by id) and a scan for the id for an int: the same test on ids.
contains_vertex(vs, x) == \E i \in 1..Len(vs) : IdOf(vs[i]) = ArgId(x)

\* Graph.find_vertex(id): the scan does not stop at the first hit, so the LAST
\* vertex with the id is returned; None when there is none.
find_vertex(vs, n) ==
    IF \E i \in 1..Len(vs) : IdOf(vs[i]) = n
    THEN vs[CHOOSE i \in 1..Len(vs) :
               /\ IdOf(vs[i]) = n
               /\ \A j \in (i + 1)..Len(vs) : IdOf(vs[j]) # n]
    ELSE None

\* `if isinstance(vertex, int): vertex = self.find_vertex(vertex)`
Resolve(vs, x) == IF isinstance_int(x) THEN find_vertex(vs, x[2]) ELSE x[2]

\* Graph.are_adjacent(x1, x2)
are_adjacent(vs, adj, x1, x2) ==
    IF ~contains_vertex(vs, x1) \/ ~contains_vertex(vs, x2)
    THEN FALSE
    ELSE is_adjacent(adj, Resolve(vs, x1), Resolve(vs, x2))

\* ------------------------------------------------------------------------
\* Graph.py: mutations, as functions from a graph state to a graph state
\* ------------------------------------------------------------------------
\* A graph state: Graph.vertices, Graph.weights, every Vertex's adjacent and
\* weights, and the outcome of the call that produced it.
GState(vs, gw, a, w, o) == [vs |-> vs, gw |-> gw, adj |-> a, wts |-> w, out |-> o]

\* Vertex.__init__: value defaults to 0.
NewValues == [o \in Objs |-> 0]

\* The state right after Graph() and the Vertex(...) constructors.
NewGraph == GState(<< >>, << >>, [o \in Objs |-> << >>], [o \in Objs |-> EmptyDict], "None")

\* The check add_vertices makes on argument i.
BadType(args, i) == args[i] = NonVertex
\* Collides comparing the objects (`vertex is args[i]`) instead of their ids.
Collides_same_object(vs, args, i) == \E j \in 1..Len(vs) : vs[j] = args[i]
Collides(vs, args, i) == \E j \in 1..Len(vs) : IdOf(vs[j]) = IdOf(args[i])
BadArg(vs, args, i) == BadType(args, i) \/ Collides(vs, args, i)

\* The first argument add_vertices rejects, 0 when it rejects none.
FirstBad(vs, args) ==
    IF \E i \in 1..Len(args) : BadArg(vs, args, i)
    THEN CHOOSE k \in 1..Len(args) :
             /\ BadArg(vs, args, k)
             /\ \A j \in 1..(k - 1) : ~BadArg(vs, args, j)
    ELSE 0

\* add_vertices appending each argument as soon as it has passed its check.
add_vertices_as_it_goes(g, args) ==
    LET i == FirstBad(g.vs, args)
    IN  IF i # 0
        THEN GState(g.vs \o SubSeq(args, 1, i - 1), g.gw, g.adj, g.wts,
                    IF BadType(args, i) THEN "TypeError" ELSE "RuntimeError")
        ELSE GState(g.vs \o args, g.gw, g.adj, g.wts, "True")

\* Graph.add_vertices(*args): every argument is checked against the vertices
\* already in the graph (not against the other arguments); then all are appended.
add_vertices(g, args) ==
    LET i == FirstBad(g.vs, args)
    IN  IF i # 0
        THEN GState(g.vs, g.gw, g.adj, g.wts,
                    IF BadType(args, i) THEN "TypeError" ELSE "RuntimeError")
        ELSE GState(g.vs \o args, g.gw, g.adj, g.wts, "True")

\* The inner loop of remove_vertex: self.vertices[i].delete_adjacent(v) for
\* i = 0..len-1; an exception of delete_adjacent ends the loop and the call.
RECURSIVE purge(_, _, _, _)
purge(h, vs, i, v) ==
    IF i > Len(vs)
    THEN Heap(h.adj, h.wts, "True")
    ELSE LET r == delete_adjacent(h, vs[i], v)
         IN  IF r.out \in Raised THEN r ELSE purge(r, vs, i + 1, v)

\* Graph.remove_vertex(x)
remove_vertex(g, x) ==
    IF ~contains_vertex(g.vs, x)
    THEN GState(g.vs, g.gw, g.adj, g.wts, "False")
    ELSE LET vertex == Resolve(g.vs, x)
         IN  IF \E i \in 1..Len(g.vs) : g.vs[i] = vertex      \* `v is vertex`
             THEN LET r == purge(Heap(g.adj, g.wts, "None"), g.vs, 1, vertex)
                  IN  IF r.out \in Raised
                      THEN GState(g.vs, g.gw, r.adj, r.wts, r.out)
                      ELSE GState(ListRemove(g.vs, vertex), g.gw, r.adj, r.wts, "True")
             ELSE GState(g.vs, g.gw, g.adj, g.wts, "False")

\* create_edge writing the index entry before it has looked for the vertices.
create_edge_index_first(g, x1, x2, w) ==
    IF ~contains_vertex(g.vs, x1) \/ ~contains_vertex(g.vs, x2)
    THEN GState(g.vs, GUpdate(g.gw, <<ArgId(x1), ArgId(x2)>>, w), g.adj, g.wts, "False")
    ELSE LET vertex1 == Resolve(g.vs, x1)
             vertex2 == Resolve(g.vs, x2)
             r == add_adjacent(Heap(g.adj, g.wts, "None"), vertex1, vertex2, w)
         IN  GState(g.vs, GUpdate(g.gw, <<IdOf(vertex1), IdOf(vertex2)>>, w),
                    r.adj, r.wts, "True")

\* Graph.create_edge(x1, x2, weight): the result of add_adjacent is not looked
\* at; the index entry (vertex1.id, vertex2.id) is written in every case.
create_edge(g, x1, x2, w) ==
    IF ~contains_vertex(g.vs, x1) \/ ~contains_vertex(g.vs, x2)
    THEN GState(g.vs, g.gw, g.adj, g.wts, "False")
    ELSE LET vertex1 == Resolve(g.vs, x1)
             vertex2 == Resolve(g.vs, x2)
             r == add_adjacent(Heap(g.adj, g.wts, "None"), vertex1, vertex2, w)
         IN  GState(g.vs, GUpdate(g.gw, <<IdOf(vertex1), IdOf(vertex2)>>, w),
                    r.adj, r.wts, "True")

\* The loop of remove_edge over self.weights.keys(): the first key holding
\* both ids is deleted; the index of that key, 0 when there is none.
FirstKeyWithBoth(gw, a, b) ==
    IF \E i \in 1..Len(gw) : KeyHasBoth(gw[i][1], a, b)
    THEN CHOOSE i \in 1..Len(gw) :
             /\ KeyHasBoth(gw[i][1], a, b)
             /\ \A j \in 1..(i - 1) : ~KeyHasBoth(gw[j][1], a, b)
    ELSE 0

\* Graph.remove_edge(x1, x2): falls off the end (returns None) when no key of
\* the index holds both ids.
remove_edge(g, x1, x2) ==
    IF ~contains_vertex(g.vs, x1) \/ ~contains_vertex(g.vs, x2)
    THEN GState(g.vs, g.gw, g.adj, g.wts, "False")
    ELSE LET vertex1 == Resolve(g.vs, x1)
             vertex2 == Resolve(g.vs, x2)
         IN  IF ~are_adjacent(g.vs, g.adj, VArg(vertex1), VArg(vertex2))
             THEN GState(g.vs, g.gw, g.adj, g.wts, "False")
             ELSE LET r == delete_adjacent(Heap(g.adj, g.wts, "None"), vertex1, vertex2)
                      k == FirstKeyWithBoth(g.gw, IdOf(vertex1), IdOf(vertex2))
                  IN  IF r.out \in Raised
                      THEN GState(g.vs, g.gw, r.adj, r.wts, r.out)
                      ELSE IF k = 0
                      THEN GState(g.vs, g.gw, r.adj, r.wts, "None")
                      ELSE GState(g.vs, RemoveAt(g.gw, k), r.adj, r.wts, "True")

\* What a query hands back: how it ended and, for out = "int", the number.
Answer(o, n) == [out |-> o, val |-> n]

\* Vertex.weight(vertex) for a Vertex argument and for an int argument.
weight(adj, wts, self, x) ==
    IF isinstance_int(x)
    THEN IF is_adjacent_id(wts, self, x[2])
         THEN Answer("int", wts[self][x[2]])
         ELSE Answer("None", 0)
    ELSE IF ~is_adjacent(adj, self, x[2])
         THEN Answer("None", 0)
         ELSE IF IdOf(x[2]) \in DOMAIN wts[self]
              THEN Answer("int", wts[self][IdOf(x[2])])
              ELSE Answer("KeyError", 0)

\* get_weight raising the same KeyError for a vertex that is absent.
get_weight_one_error(g, x1, x2) ==
    IF ~contains_vertex(g.vs, x1) \/ ~contains_vertex(g.vs, x2)
    THEN Answer("KeyError", 0)
    ELSE LET vertex1 == Resolve(g.vs, x1)
             vertex2 == Resolve(g.vs, x2)
             k == FirstKeyWithBoth(g.gw, IdOf(vertex1), IdOf(vertex2))
         IN  IF are_adjacent(g.vs, g.adj, VArg(vertex1), VArg(vertex2))
             THEN IF k # 0 THEN Answer("int", g.gw[k][2]) ELSE Answer("None", 0)
             ELSE Answer("KeyError", 0)

\* Graph.get_weight(x1, x2): the value of the first key of the index holding
\* both ids; the loop falls off its end (returns None) when no key does.
get_weight(g, x1, x2) ==
    IF ~contains_vertex(g.vs, x1) \/ ~contains_vertex(g.vs, x2)
    THEN Answer("RuntimeError", 0)
    ELSE LET vertex1 == Resolve(g.vs, x1)
             vertex2 == Resolve(g.vs, x2)
             k == FirstKeyWithBoth(g.gw, IdOf(vertex1), IdOf(vertex2))
         IN  IF are_adjacent(g.vs, g.adj, VArg(vertex1), VArg(vertex2))
             THEN IF k # 0 THEN Answer("int", g.gw[k][2]) ELSE Answer("None", 0)
             ELSE Answer("KeyError", 0)

\* ------------------------------------------------------------------------
\* The callers: one action per public mutation
\* ------------------------------------------------------------------------
Cur == GState(vertices, graph_weights, adjacent, weights, "None")

\* `at` is the value of the loop index i of add_vertices when it raised (from 1),
\* 0 for every other outcome.  `val` is the number a query returned (out = "int"),
\* 0 for every other outcome.
InstallAt(op, g, at) ==
    /\ vertices' = g.vs
    /\ graph_weights' = g.gw
    /\ adjacent' = g.adj
    /\ weights' = g.wts
    /\ last' = [op |-> op, out |-> g.out, at |-> at, val |-> 0]
    /\ nops' = nops + 1
    /\ UNCHANGED value
    /\ UNCHANGED dvars

Install(op, g) == InstallAt(op, g, 0)

\* Argument lists of add_vertices: up to MaxBatch Vertex objects or non-vertices.
Batches == UNION {[1..n -> GenObjs \cup {NonVertex}] : n \in 0..MaxBatch}

Call_add_vertices(args) ==
    /\ nops < MaxOps
    /\ InstallAt("add_vertices", add_vertices(Cur, args), FirstBad(vertices, args))

Call_remove_vertex(x) ==
    /\ nops < MaxOps
    /\ Install("remove_vertex", remove_vertex(Cur, x))

Call_create_edge(x1, x2, w) ==
    /\ nops < MaxOps
    /\ Install("create_edge", create_edge(Cur, x1, x2, w))

Call_remove_edge(x1, x2) ==
    /\ nops < MaxOps
    /\ Install("remove_edge", remove_edge(Cur, x1, x2))

\* Vertex.add_adjacent / Vertex.delete_adjacent called directly on two objects.
Call_add_adjacent(self, vertex, w) ==
    /\ nops < MaxOps
    /\ LET r == add_adjacent(Heap(adjacent, weights, "None"), self, vertex, w)
       IN  Install("add_adjacent", GState(vertices, graph_weights, r.adj, r.wts, r.out))

Call_delete_adjacent(self, vertex) ==
    /\ nops < MaxOps
    /\ LET r == delete_adjacent(Heap(adjacent, weights, "None"), self, vertex)
       IN  Install("delete_adjacent", GState(vertices, graph_weights, r.adj, r.wts, r.out))

\* Graph.get_weight called by the user: nothing but the answer changes.
Call_get_weight(x1, x2) ==
    /\ nops < MaxOps
    /\ LET r == get_weight(Cur, x1, x2)
       IN  last' = [op |-> "get_weight", out |-> r.out, at |-> 0, val |-> r.val]
    /\ nops' = nops + 1
    /\ UNCHANGED <<vertices, graph_weights, adjacent, weights, value>>
    /\ UNCHANGED dvars

\* Vertex.weight called by the user, with a Vertex or an id.
Call_weight(self, x) ==
    /\ nops < MaxOps
    /\ LET r == weight(adjacent, weights, self, x)
       IN  last' = [op |-> "weight", out |-> r.out, at |-> 0, val |-> r.val]
    /\ nops' = nops + 1
    /\ UNCHANGED <<vertices, graph_weights, adjacent, weights, value>>
    /\ UNCHANGED dvars

\* Vertex.give / Vertex.take called by the user: only the values change; `at`
\* records the vertex the method was called on.
Call_give(self) ==
    /\ nops < MaxOps
    /\ value' = give(adjacent, value, self)
    /\ last' = [op |-> "give", out |-> "None", at |-> self, val |-> 0]
    /\ nops' = nops + 1
    /\ UNCHANGED <<vertices, graph_weights, adjacent, weights>>
    /\ UNCHANGED dvars

Call_take(self) ==
    /\ nops < MaxOps
    /\ value' = take(adjacent, value, self)
    /\ last' = [op |-> "take", out |-> "None", at |-> self, val |-> 0]
    /\ nops' = nops + 1
    /\ UNCHANGED <<vertices, graph_weights, adjacent, weights>>
    /\ UNCHANGED dvars

\* ShortestPathCalculator.__init__
InitCalculator ==
    /\ visited = {}
    /\ unvisited = {}
    /\ distances = EmptyDict
    /\ prev = EmptyDict
    /\ pc = "idle"
    /\ source = None
    /\ dest = None
    /\ result = [kind |-> "none", path |-> << >>]

InitGraph ==
    /\ InitCalculator
    /\ vertices = NewGraph.vs
    /\ graph_weights = NewGraph.gw
    /\ adjacent = NewGraph.adj
    /\ weights = NewGraph.wts
    /\ value = NewValues
    /\ last = [op |-> "init", out |-> "None", at |-> 0, val |-> 0]
    /\ nops = 0

GraphCalls ==
    \/ \E args \in Batches : Call_add_vertices(args)
    \/ \E x \in GenArgs : Call_remove_vertex(x)
    \/ \E x1, x2 \in GenArgs, w \in Weights : Call_create_edge(x1, x2, w)
    \/ \E x1, x2 \in GenArgs : Call_remove_edge(x1, x2)

VertexCalls ==
    \/ \E self, vertex \in GenObjs, w \in Weights : Call_add_adjacent(self, vertex, w)
    \/ \E self, vertex \in GenObjs : Call_delete_adjacent(self, vertex)

QueryCalls ==
    \E x1, x2 \in GenArgs : Call_get_weight(x1, x2)

ValueCalls ==
    \/ \E self \in GenObjs : Call_give(self)
    \/ \E self \in GenObjs : Call_take(self)

VertexQueries ==
    \E self \in GenObjs, x \in GenArgs : Call_weight(self, x)

\* Graph methods only.
SpecGraph == InitGraph /\ [][GraphCalls]_vars
\* Vertex methods only: edges, values and the weight query.
SpecVertex == InitGraph /\ [][VertexCalls \/ ValueCalls \/ VertexQueries]_vars
\* Graph methods and the queries of the graph.
SpecQueries == InitGraph /\ [][GraphCalls \/ QueryCalls]_vars
\* Graph methods and direct Vertex method calls.
Init == InitGraph
Next == GraphCalls \/ VertexCalls
Spec == Init /\ [][Next]_vars

\* ------------------------------------------------------------------------
\* ShortestPathCalculator.py
\* ------------------------------------------------------------------------
\* np.inf: larger than every number, and np.inf + w = np.inf.
Inf == -1
Lt(a, b) == IF a = Inf THEN FALSE ELSE IF b = Inf THEN TRUE ELSE a < b
Plus(a, w) == IF a = Inf THEN Inf ELSE a + w

\* min_scan with `min_dist = self.distances[u]` left out: the last unvisited id
\* with a finite distance wins.
RECURSIVE min_scan_keeps_bound(_, _, _, _)
min_scan_keeps_bound(rest, dist, min_dist, closest) ==
    IF rest = {}
    THEN closest
    ELSE LET u == CHOOSE x \in rest : \A y \in rest : x <= y
         IN  IF Lt(dist[u], min_dist)
             THEN min_scan_keeps_bound(rest \ {u}, dist, min_dist, u)
             ELSE min_scan_keeps_bound(rest \ {u}, dist, min_dist, closest)

\* The loop of __min_distance over the set self.unvisited.  CPython iterates a
\* set of small non-negative ints in ascending order, so `rest` is scanned from
\* its least element; only a strictly smaller distance replaces the candidate.
RECURSIVE min_scan(_, _, _, _)
min_scan(rest, dist, min_dist, closest) ==
    IF rest = {}
    THEN closest
    ELSE LET u == CHOOSE x \in rest : \A y \in rest : x <= y
         IN  IF Lt(dist[u], min_dist)
             THEN min_scan(rest \ {u}, dist, dist[u], u)
             ELSE min_scan(rest \ {u}, dist, min_dist, closest)

\* ShortestPathCalculator.__min_distance(): starts from min_dist = inf and
\* closest = None.
min_distance(unv, dist) == min_scan(unv, dist, Inf, None)

\* ShortestPathCalculator.__update_distances(current): the relaxed distance of
\* every unvisited key of current.weights.  The keys are independent of each
\* other (current.id is no longer unvisited), so the loop is one comprehension.
Relaxes(cv, unv, dist, adj) ==
    /\ unv # {}
    /\ adj \in DOMAIN weights[cv]
    /\ adj \in unv
    /\ Lt(Plus(dist[IdOf(cv)], weights[cv][adj]), dist[adj])
update_distances_dist(cv, unv, dist) ==
    [n \in DOMAIN dist |->
        IF Relaxes(cv, unv, dist, n) THEN Plus(dist[IdOf(cv)], weights[cv][n]) ELSE dist[n]]
\* update_distances recording current as the predecessor of every unvisited
\* key of current.weights, whether or not the candidate distance is smaller.
update_distances_prev_every_neighbour(cv, unv, dist, pv) ==
    [n \in DOMAIN pv |->
        IF unv # {} /\ n \in DOMAIN weights[cv] /\ n \in unv THEN IdOf(cv) ELSE pv[n]]
update_distances_prev(cv, unv, dist, pv) ==
    [n \in DOMAIN pv |-> IF Relaxes(cv, unv, dist, n) THEN IdOf(cv) ELSE pv[n]]

\* The walk back along prev at the end of dijkstra, from dest.id to None.
RECURSIVE walk(_, _)
walk(pv, current) ==
    IF current = None THEN << >> ELSE <<current>> \o walk(pv, pv[current])
Reverse(sq) == [i \in 1..Len(sq) |-> sq[Len(sq) + 1 - i]]

\* reconstruct with `or current == source.id` left out.
reconstruct_without_source_case(pv, s, d) ==
    IF pv[IdOf(d)] # None
    THEN Reverse(walk(pv, IdOf(d)))
    ELSE << >>

\* reconstruct with `path.reverse()` left out.
reconstruct_unreversed(pv, s, d) ==
    IF pv[IdOf(d)] # None \/ IdOf(d) = IdOf(s)
    THEN walk(pv, IdOf(d))
    ELSE << >>

\* Lines 108-117 of dijkstra: the path from prev.
reconstruct(pv, s, d) ==
    IF pv[IdOf(d)] # None \/ IdOf(d) = IdOf(s)
    THEN Reverse(walk(pv, IdOf(d)))
    ELSE << >>

VertexIds(vs) == {IdOf(vs[i]) : i \in 1..Len(vs)}

\* dijkstra(graph, source, dest) as one function of the graph and its two
\* arguments, run on a calculator fresh from __reset: the loop from the state
\* (unv, dist, pv) to the value returned or the exception raised.
RECURSIVE dijkstra_loop(_, _, _, _, _)
dijkstra_loop(unv, dist, pv, s, d) ==
    IF unv = {}
    THEN [kind |-> "path", path |-> reconstruct(pv, s, d)]
    ELSE LET current == min_distance(unv, dist)
             current_v == find_vertex(vertices, current)
             rest == unv \ {current}
         IN  IF current \notin unv
             THEN [kind |-> "KeyError", path |-> << >>]
             ELSE IF current = IdOf(d)
             THEN [kind |-> "path", path |-> reconstruct(pv, s, d)]
             ELSE dijkstra_loop(rest,
                                update_distances_dist(current_v, rest, dist),
                                update_distances_prev(current_v, rest, dist, pv),
                                s, d)

dijkstra(s, d) ==
    IF ~contains_vertex(vertices, VArg(s)) \/ ~contains_vertex(vertices, VArg(d))
    THEN [kind |-> "None", path |-> << >>]
    ELSE dijkstra_loop(VertexIds(vertices),
                       [n \in VertexIds(vertices) |-> IF n = IdOf(s) THEN 0 ELSE Inf],
                       [n \in VertexIds(vertices) |-> None],
                       s, d)

\* dijkstra keeping the distances an earlier call left for the ids it knows.
Dijkstra_enter_keeps_distances(s, d) ==
    /\ source' = s
    /\ dest' = d
    /\ IF ~contains_vertex(vertices, VArg(s)) \/ ~contains_vertex(vertices, VArg(d))
       THEN /\ pc' = "returned"
            /\ result' = [kind |-> "None", path |-> << >>]
            /\ UNCHANGED <<visited, unvisited, distances, prev>>
       ELSE /\ visited' = {}
            /\ unvisited' = VertexIds(vertices)
            /\ distances' = [n \in VertexIds(vertices) |->
                                IF n = IdOf(s) THEN 0
                                ELSE IF n \in DOMAIN distances THEN distances[n] ELSE Inf]
            /\ prev' = [n \in VertexIds(vertices) |-> None]
            /\ pc' = "loop"
            /\ result' = [kind |-> "none", path |-> << >>]
    /\ UNCHANGED gvars

\* dijkstra resetting its working state before it looks for the vertices.
Dijkstra_enter_reset_first(s, d) ==
    /\ source' = s
    /\ dest' = d
    /\ IF ~contains_vertex(vertices, VArg(s)) \/ ~contains_vertex(vertices, VArg(d))
       THEN /\ pc' = "returned"
            /\ result' = [kind |-> "None", path |-> << >>]
            /\ visited' = {}
            /\ unvisited' = {}
            /\ distances' = << >>
            /\ prev' = << >>
       ELSE /\ visited' = {}
            /\ unvisited' = VertexIds(vertices)
            /\ distances' = [n \in VertexIds(vertices) |-> IF n = IdOf(s) THEN 0 ELSE Inf]
            /\ prev' = [n \in VertexIds(vertices) |-> None]
            /\ pc' = "loop"
            /\ result' = [kind |-> "none", path |-> << >>]
    /\ UNCHANGED gvars

\* dijkstra(graph, source, dest) up to the first test of the while loop.  With
\* a vertex absent the call returns (None) before anything is reset.  While the
\* call runs there is no result yet.
Dijkstra_enter(s, d) ==
    /\ source' = s
    /\ dest' = d
    /\ IF ~contains_vertex(vertices, VArg(s)) \/ ~contains_vertex(vertices, VArg(d))
       THEN /\ pc' = "returned"
            /\ result' = [kind |-> "None", path |-> << >>]
            /\ UNCHANGED <<visited, unvisited, distances, prev>>
       ELSE /\ visited' = {}
            /\ unvisited' = VertexIds(vertices)
            /\ distances' = [n \in VertexIds(vertices) |-> IF n = IdOf(s) THEN 0 ELSE Inf]
            /\ prev' = [n \in VertexIds(vertices) |-> None]
            /\ pc' = "loop"
            /\ result' = [kind |-> "none", path |-> << >>]
    /\ UNCHANGED gvars

\* The first call of dijkstra on a new ShortestPathCalculator.
Dijkstra_call(s, d) ==
    /\ pc = "idle"
    /\ Dijkstra_enter(s, d)

\* A further call on the same calculator, after a call that returned or raised.
Dijkstra_again(s, d) ==
    /\ pc \in {"returned", "raised"}
    /\ Dijkstra_enter(s, d)

\* One pass through the body of `while len(self.unvisited) != 0`.
Dijkstra_iterate ==
    /\ pc = "loop"
    /\ LET current == min_distance(unvisited, distances)
           current_v == find_vertex(vertices, current)
       IN  /\ visited' = visited \cup {current}
           /\ IF current \notin unvisited
              THEN \* set.remove raises KeyError
                   /\ pc' = "raised"
                   /\ result' = [kind |-> "KeyError", path |-> << >>]
                   /\ UNCHANGED <<unvisited, distances, prev>>
              ELSE /\ unvisited' = unvisited \ {current}
                   /\ UNCHANGED result
                   /\ IF current = IdOf(dest)
                      THEN /\ pc' = "reconstruct"
                           /\ UNCHANGED <<distances, prev>>
                      ELSE /\ distances' = update_distances_dist(current_v, unvisited', distances)
                           /\ prev' = update_distances_prev(current_v, unvisited', distances, prev)
                           /\ pc' = IF unvisited' = {} THEN "reconstruct" ELSE "loop"
    /\ UNCHANGED <<source, dest>>
    /\ UNCHANGED gvars

\* The end of dijkstra counting the visits of the destination in its value.
Dijkstra_return_writes_value ==
    /\ pc = "reconstruct"
    /\ result' = [kind |-> "path", path |-> reconstruct(prev, source, dest)]
    /\ pc' = "returned"
    /\ value' = [value EXCEPT ![dest] = @ + 1]
    /\ UNCHANGED <<visited, unvisited, distances, prev, source, dest>>
    /\ UNCHANGED <<vertices, graph_weights, adjacent, weights, last, nops>>

\* The end of dijkstra marking every vertex id visited before it returns.
Dijkstra_return_visits_all ==
    /\ pc = "reconstruct"
    /\ result' = [kind |-> "path", path |-> reconstruct(prev, source, dest)]
    /\ pc' = "returned"
    /\ visited' = VertexIds(vertices)
    /\ UNCHANGED <<unvisited, distances, prev, source, dest>>
    /\ UNCHANGED gvars

\* The end of dijkstra: build the path and return it.
Dijkstra_return ==
    /\ pc = "reconstruct"
    /\ result' = [kind |-> "path", path |-> reconstruct(prev, source, dest)]
    /\ pc' = "returned"
    /\ UNCHANGED <<visited, unvisited, distances, prev, source, dest>>
    /\ UNCHANGED gvars

\* ------------------------------------------------------------------------
\* The graphs the searches run on, each built with the calls of Graph.py
\* ------------------------------------------------------------------------
\* create_edge(a, b, wt[<<a, b>>]) for every pair of E, in the order of the pairs.
PairKey(e) == e[1] * (IdSpan + 2) + e[2]
RECURSIVE AddEdges(_, _, _)
AddEdges(g, E, wt) ==
    IF E = {}
    THEN g
    ELSE LET e == CHOOSE x \in E : \A y \in E : PairKey(x) <= PairKey(y)
         IN  AddEdges(create_edge(g, VArg(e[1]), VArg(e[2]), wt[e]), E \ {e}, wt)

\* Vertices with ids 1..n, any set of edges among them, any weights.
PlainPairs(n) == {e \in (1..n) \X (1..n) : e[1] < e[2]}
PlainGraph(n, E, wt) == AddEdges(add_vertices(NewGraph, [i \in 1..n |-> i]), E, wt)

\* Two Vertex objects with id 1 added in one batch, then the vertex with id 2;
\* with only the second object of id 1 in the batch, the first one is a Vertex
\* outside the graph that create_edge accepts for its id.
DupObj == IdSpan + 1
DupPairs == {<<1, 2>>, <<DupObj, 2>>}
DupGraph(batch, E, wt) ==
    AddEdges(add_vertices(add_vertices(NewGraph, batch), <<2>>), E, wt)

\* Test.py, lines 5-12.
TestGraph ==
    LET g0 == add_vertices(NewGraph, [i \in 1..TestN |-> i])
        g1 == create_edge(g0, IArg(1), IArg(2), 6)
        g2 == create_edge(g1, IArg(1), IArg(3), 300)
        g3 == create_edge(g2, IArg(1), IArg(4), 150)
        g4 == create_edge(g3, IArg(2), IArg(3), 30)
        g5 == create_edge(g4, IArg(3), IArg(5), 40)
    IN  create_edge(g5, IArg(4), IArg(5), 10)

\* The weights of the edges of the graphs searched.
SearchWeights == 0..(MaxWeight + 1)

GraphIs(g) ==
    /\ vertices = g.vs
    /\ graph_weights = g.gw
    /\ adjacent = g.adj
    /\ weights = g.wts

InitDijkstra ==
    /\ InitCalculator
    /\ value = NewValues
    /\ last = [op |-> "init", out |-> "None", at |-> 0, val |-> 0]
    /\ nops = 0
    /\ \/ \E n \in 1..NumIds : \E E \in SUBSET PlainPairs(n) :
              \E wt \in [E -> SearchWeights] :
              GraphIs(PlainGraph(n, E, wt))
       \/ \E batch \in {<<1, DupObj>>, <<DupObj, 1>>, <<DupObj>>} :
              \E E \in SUBSET DupPairs : \E wt \in [E -> SearchWeights] :
                  GraphIs(DupGraph(batch, E, wt))
       \/ GraphIs(TestGraph)

DijkstraSteps ==
    \/ \E s, d \in Objs : Dijkstra_call(s, d)
    \/ Dijkstra_iterate
    \/ Dijkstra_return

SpecDijkstra == InitDijkstra /\ [][DijkstraSteps]_vars

\* One calculator used for call after call on the same graph.
DijkstraReuseSteps ==
    \/ DijkstraSteps
    \/ \E s, d \in Objs : Dijkstra_again(s, d)

SpecDijkstraReuse == InitDijkstra /\ [][DijkstraReuseSteps]_vars

\* ------------------------------------------------------------------------
\* Graph.py: the degree queries
\* ------------------------------------------------------------------------
\* The loop of find_min_degree over Graph.vertices from entry i on, with
\* min_degree = m so far; get_adjacent_vertices returns self.adjacent.
RECURSIVE min_degree_scan(_, _, _, _)
min_degree_scan(vs, adj, i, m) ==
    IF i > Len(vs)
    THEN m
    ELSE LET n == Len(adj[vs[i]])
         IN  min_degree_scan(vs, adj, i + 1, IF Lt(n, m) THEN n ELSE m)

\* find_min_degree with min_degree starting at 0 instead of np.inf.
find_min_degree_from_zero(vs, adj) ==
    Answer("int", min_degree_scan(vs, adj, 1, 0))

\* find_min_degree answering 0 where no vertex lowered np.inf.
find_min_degree_zero_if_empty(vs, adj) ==
    LET m == min_degree_scan(vs, adj, 1, Inf)
    IN  IF m = Inf THEN Answer("int", 0) ELSE Answer("int", m)

\* Graph.find_min_degree(): np.inf comes back when no vertex lowered it.
find_min_degree(vs, adj) ==
    LET m == min_degree_scan(vs, adj, 1, Inf)
    IN  IF m = Inf THEN Answer("inf", 0) ELSE Answer("int", m)

\* The loop of find_max_degree, with max_degree = m so far.
RECURSIVE max_degree_scan(_, _, _, _)
max_degree_scan(vs, adj, i, m) ==
    IF i > Len(vs)
    THEN m
    ELSE LET n == Len(adj[vs[i]])
         IN  max_degree_scan(vs, adj, i + 1, IF n > m THEN n ELSE m)

\* Graph.find_max_degree()
find_max_degree(vs, adj) == Answer("int", max_degree_scan(vs, adj, 1, 0))

\* The two queries called by the user: nothing but the answer changes.
Call_find_min_degree ==
    /\ nops < MaxOps
    /\ LET r == find_min_degree(vertices, adjacent)
       IN  last' = [op |-> "find_min_degree", out |-> r.out, at |-> 0, val |-> r.val]
    /\ nops' = nops + 1
    /\ UNCHANGED <<vertices, graph_weights, adjacent, weights, value>>
    /\ UNCHANGED dvars

Call_find_max_degree ==
    /\ nops < MaxOps
    /\ LET r == find_max_degree(vertices, adjacent)
       IN  last' = [op |-> "find_max_degree", out |-> r.out, at |-> 0, val |-> r.val]
    /\ nops' = nops + 1
    /\ UNCHANGED <<vertices, graph_weights, adjacent, weights, value>>
    /\ UNCHANGED dvars

DegreeCalls ==
    \/ Call_find_min_degree
    \/ Call_find_max_degree

\* Graph methods and the degree queries.
SpecDegrees == InitGraph /\ [][GraphCalls \/ DegreeCalls]_vars

\* Graph.are_adjacent called by the user: nothing but the answer changes.
Call_are_adjacent(x1, x2) ==
    /\ nops < MaxOps
    /\ LET r == are_adjacent(vertices, adjacent, x1, x2)
       IN  last' = [op |-> "are_adjacent", out |-> IF r THEN "True" ELSE "False",
                    at |-> 0, val |-> 0]
    /\ nops' = nops + 1
    /\ UNCHANGED <<vertices, graph_weights, adjacent, weights, value>>
    /\ UNCHANGED dvars

AdjacencyCalls ==
    \E x1, x2 \in GenArgs : Call_are_adjacent(x1, x2)

\* Graph methods and the adjacency query.
SpecAdjacency == InitGraph /\ [][GraphCalls \/ AdjacencyCalls]_vars

\* ------------------------------------------------------------------------
\* Vocabulary of the properties
\* ------------------------------------------------------------------------
\* The Vertex objects of the graph, and membership by object identity.
VSet == {vertices[i] : i \in 1..Len(vertices)}
InGraph(o) == o \in VSet

\* A lists B as adjacent: B is in A.adjacent and B.id is a key of A.weights.
Lists(A, B) ==
    /\ \E i \in 1..Len(adjacent[A]) : adjacent[A][i] = B
    /\ IdOf(B) \in DOMAIN weights[A]

\* No two entries of Graph.vertices carry the same id.
UniqueIds == \A i, j \in 1..Len(vertices) : i # j => IdOf(vertices[i]) # IdOf(vertices[j])

Finished == pc \in {"returned", "raised"}

\* The least total weight of a walk from s to every vertex of the graph, by
\* Bellman-Ford rounds over the edges the vertices list (Inf: unreachable).
LeastOf(S) == IF \A x \in S : x = Inf
              THEN Inf
              ELSE CHOOSE x \in S : x # Inf /\ \A y \in S : y = Inf \/ x <= y
RECURSIVE Rounds(_, _)
Rounds(D, k) ==
    IF k = 0
    THEN D
    ELSE Rounds([p \in VSet |->
                    LeastOf({D[p]} \cup {Plus(D[o], weights[o][IdOf(p)]) :
                                            o \in {q \in VSet : Lists(q, p)}})],
                k - 1)
MinDist(s, d) == Rounds([p \in VSet |-> IF p = s THEN 0 ELSE Inf], Cardinality(VSet))[d]

\* os is a walk of vertices of the graph from s to d that carries the ids of path.
Realizes(os, path, s, d) ==
    /\ os[1] = s
    /\ os[Len(path)] = d
    /\ \A i \in 1..Len(path) : IdOf(os[i]) = path[i]
    /\ \A i \in 1..(Len(path) - 1) : Lists(os[i], os[i + 1])
RECURSIVE WalkWeight(_, _)
WalkWeight(os, n) ==
    IF n <= 1 THEN 0 ELSE WalkWeight(os, n - 1) + weights[os[n - 1]][IdOf(os[n])]

\* The total weight of a list of ids, each id looked up with find_vertex.
IdPathWeight(path) ==
    WalkWeight([i \in 1..Len(path) |-> find_vertex(vertices, path[i])], Len(path))

\* The returned value is a path from s to d of total weight W.
ReturnsPathOfWeight(s, d, W) ==
    /\ result.kind = "path"
    /\ Len(result.path) >= 1
    /\ \E os \in [1..Len(result.path) -> VSet] :
           /\ Realizes(os, result.path, s, d)
           /\ WalkWeight(os, Len(result.path)) = W

\* ------------------------------------------------------------------------
\* Properties
\* ------------------------------------------------------------------------
\* C1: after any sequence of calls, if A lists B as adjacent with weight w
\* then B lists A as adjacent with the same weight w.
SymmetryInvariant ==
    \A A, B \in Objs :
        Lists(A, B) => (Lists(B, A) /\ weights[B][IdOf(A)] = weights[A][IdOf(B)])

\* C2: when source and dest are in the graph and connected, dijkstra returns a
\* path whose total weight is the least total weight of any source-dest path.
DijkstraShortest ==
    (Finished /\ InGraph(source) /\ InGraph(dest) /\ MinDist(source, dest) # Inf)
        => ReturnsPathOfWeight(source, dest, MinDist(source, dest))

\* C2, on the graphs in which no two vertices share an id: the same statement.
DijkstraShortestUniqueIds == UniqueIds => DijkstraShortest

\* C3: when dest is in the graph but not reachable from source, dijkstra
\* returns the empty path and raises nothing.
UnreachableGivesEmptyPath ==
    (Finished /\ InGraph(source) /\ InGraph(dest) /\ MinDist(source, dest) = Inf)
        => (result.kind = "path" /\ result.path = << >>)

\* C4: with source and dest present the relax-loop ends and the call returns a
\* path value, also when every remaining unvisited distance is +infinity: every
\* pass of the loop shrinks unvisited and goes on to the next pass or to the
\* path, never to an exception.
LoopEndsWithPath ==
    [][(pc = "loop" /\ InGraph(source) /\ InGraph(dest))
          => /\ pc' \in {"loop", "reconstruct"}
             /\ Cardinality(unvisited') < Cardinality(unvisited)]_vars

\* C5: on the graph of Test.py, dijkstra from vertex 1 to vertex 5 returns
\* exactly [1, 2, 3, 5], of total weight 76.
TestScriptPath ==
    (GraphIs(TestGraph) /\ source = 1 /\ dest = 5 /\ Finished)
        => /\ result = [kind |-> "path", path |-> <<1, 2, 3, 5>>]
           /\ IdPathWeight(result.path) = 76
TestScriptPathWitness ==
    GraphIs(TestGraph) /\ source = 1 /\ dest = 5 /\ pc = "returned"

\* C6: for every vertex s of the graph, dijkstra(graph, s, s) returns [s.id].
SameVertexPath ==
    (Finished /\ InGraph(source) /\ source = dest)
        => result = [kind |-> "path", path |-> <<IdOf(source)>>]
SameVertexPathWitness ==
    /\ pc = "returned" /\ InGraph(source) /\ source = dest
    /\ Len(vertices) >= 2 /\ adjacent[source] # << >>

\* C7: every key (a, b) of Graph.weights names two vertices that are both in
\* Graph.vertices and adjacent to each other.
IndexKeysAlive ==
    \A k \in GKeys(graph_weights) :
        \E A, B \in VSet : IdOf(A) = k[1] /\ IdOf(B) = k[2] /\ Lists(A, B) /\ Lists(B, A)

\* C8: every pair of adjacent vertices of the graph has exactly one index entry
\* for the unordered pair, and its value is the per-vertex weight.
IndexMirrorsVertices ==
    \A A, B \in VSet :
        Lists(A, B) =>
            LET ab == <<IdOf(A), IdOf(B)>>
                ba == <<IdOf(B), IdOf(A)>>
            IN  /\ GHas(graph_weights, ab) # GHas(graph_weights, ba)
                /\ GHas(graph_weights, ab) => GGet(graph_weights, ab) = weights[A][IdOf(B)]
                /\ GHas(graph_weights, ba) => GGet(graph_weights, ba) = weights[A][IdOf(B)]

\* C9: no two vertices in Graph.vertices share an id, also after a batch in
\* which two arguments carry the same id.
NoSharedIds == UniqueIds

\* C10: add_vertices is atomic: with an argument that is not a Vertex or whose
\* id is already in the graph, at any position, the call fails and
\* Graph.vertices is what it was before the call.
AddVerticesAtomic ==
    [][last'.op = "add_vertices" =>
          \A args \in Batches :
              (FirstBad(vertices, args) # 0 /\ Call_add_vertices(args))
                  => (last'.out \in {"TypeError", "RuntimeError"} /\ vertices' = vertices)]_vars
AddVerticesAtomicWitness ==
    /\ last.op = "add_vertices"
    /\ last.out \in {"TypeError", "RuntimeError"}
    /\ last.at = 2
    /\ vertices # << >>

RemoveVertexPurges ==
    [][(last'.op = "remove_vertex" /\ last'.out = "True") =>
          \A x \in GenArgs :
              Call_remove_vertex(x) =>
                  LET v == Resolve(vertices, x)
                  IN  \A i \in 1..Len(vertices') :
                          /\ IdOf(vertices'[i]) # IdOf(v)
                          /\ IdOf(v) \notin DOMAIN weights'[vertices'[i]]
                          /\ \A k \in 1..Len(adjacent'[vertices'[i]]) :
                                 adjacent'[vertices'[i]][k] # v]_vars

\* C13: remove_vertex(x), x a Vertex or an id, returns False and changes nothing
\* when no vertex of the graph has the id of x (contains_vertex(x) is False);
\* when one has, it returns True and Graph.vertices has lost a vertex.
RemoveVertexReturns ==
    [][last'.op = "remove_vertex" =>
          \A x \in GenArgs :
              Call_remove_vertex(x) =>
                  IF \E i \in 1..Len(vertices) : IdOf(vertices[i]) = ArgId(x)
                  THEN /\ last'.out = "True"
                       /\ Len(vertices') = Len(vertices) - 1
                  ELSE /\ last'.out = "False"
                       /\ UNCHANGED <<vertices, graph_weights, adjacent, weights>>]_vars

\* C14: in every reachable state, for two vertices a, b of the graph with
\* different ids that are not adjacent (in either order), create_edge(a, b, w)
\* followed by remove_edge(a, b) leaves are_adjacent(a, b) False and leaves no
\* key of Graph.weights that holds both a.id and b.id.
EdgeRoundTrip ==
    \A a, b \in VSet : \A w \in Weights :
        (/\ IdOf(a) # IdOf(b)
         /\ ~are_adjacent(vertices, adjacent, VArg(a), VArg(b))
         /\ ~are_adjacent(vertices, adjacent, VArg(b), VArg(a)))
            => LET g1 == create_edge(Cur, VArg(a), VArg(b), w)
                   g2 == remove_edge(g1, VArg(a), VArg(b))
               IN  /\ ~are_adjacent(g2.vs, g2.adj, VArg(a), VArg(b))
                   /\ \A k \in GKeys(g2.gw) : ~KeyHasBoth(k, IdOf(a), IdOf(b))

\* C15: create_edge(v1, v2, w) returns True only if the call made v1 and v2
\* adjacent (v1 lists v2 after the call and did not before); when the two have
\* the same id or v1 already holds the id of v2 it returns False.
CreateEdgeReturnsCreated ==
    [][last'.op = "create_edge" =>
          \A x1, x2 \in GenArgs : \A w \in Weights :
              (/\ \E i \in 1..Len(vertices) : IdOf(vertices[i]) = ArgId(x1)
               /\ \E i \in 1..Len(vertices) : IdOf(vertices[i]) = ArgId(x2)
               /\ Call_create_edge(x1, x2, w))
                  => LET v1 == Resolve(vertices, x1)
                         v2 == Resolve(vertices, x2)
                         before == \E i \in 1..Len(adjacent[v1]) : adjacent[v1][i] = v2
                         after == \E i \in 1..Len(adjacent'[v1]) : adjacent'[v1][i] = v2
                     IN  /\ (last'.out = "True") => (after /\ ~before)
                         /\ (IdOf(v1) = IdOf(v2) \/ IdOf(v2) \in DOMAIN weights[v1])
                                => last'.out = "False"]_vars

\* C16: create_edge(v1, v2, w) returns False when no vertex of the graph has the
\* id of v1 or none has the id of v2 (each given as a Vertex or as an id), and
\* then Graph.vertices, Graph.weights and the adjacent list and weights of every
\* vertex are what they were.
CreateEdgeAbsent ==
    [][last'.op = "create_edge" =>
          \A x1, x2 \in GenArgs : \A w \in Weights :
              (/\ \/ \A i \in 1..Len(vertices) : IdOf(vertices[i]) # ArgId(x1)
                  \/ \A i \in 1..Len(vertices) : IdOf(vertices[i]) # ArgId(x2)
               /\ Call_create_edge(x1, x2, w))
                  => /\ last'.out = "False"
                     /\ UNCHANGED <<vertices, graph_weights, adjacent, weights>>]_vars
CreateEdgeAbsentWitness ==
    /\ last.op = "create_edge"
    /\ last.out = "False"
    /\ Len(vertices) >= 2
    /\ graph_weights # << >>

\* C17: remove_edge(v1, v2) returns False and changes nothing when a vertex is
\* absent or the two are not adjacent; otherwise it returns True, v1 no longer
\* lists v2 nor v2 v1, and Graph.weights has lost one entry whose key holds both
\* ids.
RemoveEdgeReturns ==
    [][last'.op = "remove_edge" =>
          \A x1, x2 \in GenArgs :
              Call_remove_edge(x1, x2) =>
                  IF \/ \A i \in 1..Len(vertices) : IdOf(vertices[i]) # ArgId(x1)
                     \/ \A i \in 1..Len(vertices) : IdOf(vertices[i]) # ArgId(x2)
                     \/ ~InList(Resolve(vertices, x2), adjacent[Resolve(vertices, x1)])
                  THEN /\ last'.out = "False"
                       /\ UNCHANGED <<vertices, graph_weights, adjacent, weights>>
                  ELSE LET v1 == Resolve(vertices, x1)
                           v2 == Resolve(vertices, x2)
                           both(gw) == {i \in 1..Len(gw) : KeyHasBoth(gw[i][1], IdOf(v1), IdOf(v2))}
                       IN  /\ last'.out = "True"
                           /\ ~InList(v2, adjacent'[v1])
                           /\ ~InList(v1, adjacent'[v2])
                           /\ Cardinality(both(graph_weights')) = Cardinality(both(graph_weights)) - 1
                           /\ Len(graph_weights') = Len(graph_weights) - 1]_vars

\* C18: in every reachable state, for two vertices v1, v2 of the graph that list
\* each other as adjacent, get_weight(v1, v2), asked in either order and with
\* Vertex or id arguments, returns the weight of the edge as the vertices hold
\* it, v1.weight(v2).
GetWeightIsEdgeWeight ==
    [][last'.op = "get_weight" =>
          \A x1, x2 \in GenArgs :
              (/\ \E i \in 1..Len(vertices) : IdOf(vertices[i]) = ArgId(x1)
               /\ \E i \in 1..Len(vertices) : IdOf(vertices[i]) = ArgId(x2)
               /\ InGraph(Resolve(vertices, x1))
               /\ InGraph(Resolve(vertices, x2))
               /\ Lists(Resolve(vertices, x1), Resolve(vertices, x2))
               /\ Lists(Resolve(vertices, x2), Resolve(vertices, x1))
               /\ Call_get_weight(x1, x2))
                  => LET held == weight(adjacent, weights, Resolve(vertices, x1),
                                        VArg(Resolve(vertices, x2)))
                     IN  /\ held.out = "int"
                         /\ last'.out = "int"
                         /\ last'.val = held.val]_vars

AddAdjacentGuards ==
    [][last'.op = "add_adjacent" =>
          \A self, vertex \in GenObjs : \A w \in Weights :
              Call_add_adjacent(self, vertex, w) =>
                  /\ IF IdOf(self) = IdOf(vertex) \/ IdOf(vertex) \in DOMAIN weights[self]
                     THEN /\ last'.out = "False"
                          /\ adjacent' = adjacent
                          /\ weights' = weights
                     ELSE /\ last'.out = "True"
                          /\ adjacent'[self] = Append(adjacent[self], vertex)
                          /\ adjacent'[vertex] = Append(adjacent[vertex], self)
                          /\ IdOf(vertex) \in DOMAIN weights'[self]
                          /\ weights'[self][IdOf(vertex)] = w
                          /\ IdOf(self) \in DOMAIN weights'[vertex]
                          /\ weights'[vertex][IdOf(self)] = w
                  /\ \A o \in Objs :
                         /\ IdOf(o) \notin DOMAIN weights'[o]
                         /\ \A i \in 1..Len(adjacent'[o]) : IdOf(adjacent'[o][i]) # IdOf(o)
                         /\ \A n \in DOMAIN weights[o] :
                                n \in DOMAIN weights'[o] /\ weights'[o][n] = weights[o][n]]_vars

\* C20, without its last sentence: what add_adjacent returns and what it does
\* to self and other.
AddAdjacentReturns ==
    [][last'.op = "add_adjacent" =>
          \A self, vertex \in GenObjs : \A w \in Weights :
              Call_add_adjacent(self, vertex, w) =>
                  IF IdOf(self) = IdOf(vertex) \/ IdOf(vertex) \in DOMAIN weights[self]
                  THEN /\ last'.out = "False"
                       /\ adjacent' = adjacent
                       /\ weights' = weights
                  ELSE /\ last'.out = "True"
                       /\ adjacent'[self] = Append(adjacent[self], vertex)
                       /\ adjacent'[vertex] = Append(adjacent[vertex], self)
                       /\ IdOf(vertex) \in DOMAIN weights'[self]
                       /\ weights'[self][IdOf(vertex)] = w
                       /\ IdOf(self) \in DOMAIN weights'[vertex]
                       /\ weights'[vertex][IdOf(self)] = w]_vars

\* C21: Vertex.delete_adjacent(other) returns False and changes nothing when
\* other is not adjacent to self (`other in self.adjacent`); when it is adjacent
\* the call returns True and afterwards other is neither in self.adjacent nor a
\* key of self.weights, and self is neither in other.adjacent nor a key of
\* other.weights.
DeleteAdjacentContract ==
    [][last'.op = "delete_adjacent" =>
          \A self, vertex \in GenObjs :
              Call_delete_adjacent(self, vertex) =>
                  IF ~InList(vertex, adjacent[self])
                  THEN /\ last'.out = "False"
                       /\ adjacent' = adjacent
                       /\ weights' = weights
                  ELSE /\ last'.out = "True"
                       /\ \A i \in 1..Len(adjacent'[self]) : adjacent'[self][i] # vertex
                       /\ IdOf(vertex) \notin DOMAIN weights'[self]
                       /\ \A i \in 1..Len(adjacent'[vertex]) : adjacent'[vertex][i] # self
                       /\ IdOf(self) \notin DOMAIN weights'[vertex]]_vars

\* C22: for every vertex V, n is a key of V.weights exactly when a vertex with
\* id n is in V.adjacent, and V.adjacent holds one entry per key, so that
\* len(V.adjacent) is the number of keys of V.weights.
AdjacentWeightsInSync ==
    \A V \in Objs :
        /\ DOMAIN weights[V] = {IdOf(adjacent[V][i]) : i \in 1..Len(adjacent[V])}
        /\ \A i, j \in 1..Len(adjacent[V]) :
               IdOf(adjacent[V][i]) = IdOf(adjacent[V][j]) => i = j
        /\ Len(adjacent[V]) = Cardinality(DOMAIN weights[V])

\* The number of entries of self.adjacent that are the object o.
Entries(self, o) == Cardinality({i \in 1..Len(adjacent[self]) : adjacent[self][i] = o})
\* The sum of the values of the objects in S.
RECURSIVE SumValues(_, _)
SumValues(val, S) ==
    IF S = {} THEN 0
    ELSE LET o == CHOOSE x \in S : TRUE IN val[o] + SumValues(val, S \ {o})

\* C23: V.give() lowers V.value by the degree of V, raises the value of each
\* neighbour of V by exactly 1 and leaves every other value and all adjacent
\* lists and weights as they were, so the sum of the values is conserved;
\* V.take() raises V.value by the degree and lowers each neighbour by 1.
GiveTakeDeltas ==
    /\ [][last'.op = "give" =>
            \A V \in GenObjs :
                Call_give(V) =>
                    /\ value'[V] = value[V] - Len(adjacent[V])
                    /\ \A o \in Objs \ {V} :
                           value'[o] = value[o] + (IF Entries(V, o) > 0 THEN 1 ELSE 0)
                    /\ UNCHANGED <<vertices, graph_weights, adjacent, weights>>
                    /\ SumValues(value', Objs) = SumValues(value, Objs)]_vars
    /\ [][last'.op = "take" =>
            \A V \in GenObjs :
                Call_take(V) =>
                    /\ value'[V] = value[V] + Len(adjacent[V])
                    /\ \A o \in Objs \ {V} :
                           value'[o] = value[o] - (IF Entries(V, o) > 0 THEN 1 ELSE 0)
                    /\ UNCHANGED <<vertices, graph_weights, adjacent, weights>>
                    /\ SumValues(value', Objs) = SumValues(value, Objs)]_vars

\* C23, counting entries: give moves one unit per entry of V.adjacent, so an
\* object listed k times receives k; take is the mirror image.
GiveTakePerEntry ==
    /\ [][last'.op = "give" =>
            \A V \in GenObjs :
                Call_give(V) =>
                    /\ value'[V] = value[V] - Len(adjacent[V])
                    /\ \A o \in Objs \ {V} : value'[o] = value[o] + Entries(V, o)
                    /\ UNCHANGED <<vertices, graph_weights, adjacent, weights>>
                    /\ SumValues(value', Objs) = SumValues(value, Objs)]_vars
    /\ [][last'.op = "take" =>
            \A V \in GenObjs :
                Call_take(V) =>
                    /\ value'[V] = value[V] + Len(adjacent[V])
                    /\ \A o \in Objs \ {V} : value'[o] = value[o] - Entries(V, o)
                    /\ UNCHANGED <<vertices, graph_weights, adjacent, weights>>
                    /\ SumValues(value', Objs) = SumValues(value, Objs)]_vars

\* C24: in every reachable state and for every vertex V, V.give() followed at
\* once by V.take() leaves every value, that of V and of its neighbours
\* included, as it was before the give.
GiveThenTakeRestores ==
    \A V \in GenObjs :
        LET given == give_loop(adjacent, value, V, 1)
        IN  take(adjacent, given, V) = value

\* C24 has happened: the last call was V.take() on a vertex with a neighbour
\* and every value is back at its initial 0, which only a give on V before it
\* can bring about after a take that changed values.
GiveThenTakeRestoresWitness ==
    /\ last.op = "take"
    /\ last.at \in GenObjs
    /\ Len(adjacent[last.at]) >= 1
    /\ value = NewValues

\* C25: for every vertex and every other vertex, weight(other) and
\* weight(other.id) give the same answer: the weight stored under other.id when
\* other is adjacent (`other in self.adjacent`), and None, never a number and
\* never an exception, when it is not.
WeightForms ==
    \A self, other \in GenObjs :
        LET byVertex == weight(adjacent, weights, self, VArg(other))
            byId     == weight(adjacent, weights, self, IArg(IdOf(other)))
        IN  /\ byVertex = byId
            /\ IF InList(other, adjacent[self])
               THEN /\ byVertex.out = "int"
                    /\ IdOf(other) \in DOMAIN weights[self]
                    /\ byVertex.val = weights[self][IdOf(other)]
               ELSE byVertex.out = "None"

\* C26: no step of a dijkstra call, whatever its outcome, changes
\* Graph.vertices, Graph.weights or the value, adjacent list or weights of any
\* vertex.
DijkstraFrame ==
    [][UNCHANGED <<vertices, graph_weights, adjacent, weights, value>>]_vars

\* C26 has happened: a call has returned a path of several vertices.
DijkstraFrameWitness ==
    /\ pc = "returned"
    /\ result.kind = "path"
    /\ Len(result.path) >= 3

\* C27: a call whose source or destination is absent from the graph (no vertex
\* of the graph has its id) returns at once, with the 'no path' result None, and
\* visited, unvisited, distances and prev are what they were before the call.
AbsentVertexReturnsAtOnce ==
    [][\A s, d \in Objs :
          (/\ Dijkstra_call(s, d) \/ Dijkstra_again(s, d)
           /\ \/ \A i \in 1..Len(vertices) : IdOf(vertices[i]) # IdOf(s)
              \/ \A i \in 1..Len(vertices) : IdOf(vertices[i]) # IdOf(d))
          => /\ pc' = "returned"
             /\ result' = [kind |-> "None", path |-> << >>]
             /\ UNCHANGED <<visited, unvisited, distances, prev>>]_vars

\* C27 has happened: a call with an absent vertex has returned on a calculator
\* that still holds the working state of an earlier search.
AbsentVertexReturnsAtOnceWitness ==
    /\ pc = "returned"
    /\ result.kind = "None"
    /\ \A i \in 1..Len(vertices) : IdOf(vertices[i]) # IdOf(dest)
    /\ visited # {}
    /\ unvisited # {}

\* A search is under way or has ended, after its initialization.
Searching == pc \in {"loop", "reconstruct", "raised"} \/ (pc = "returned" /\ result.kind = "path")

\* C28: at every step of a dijkstra call after initialization visited and
\* unvisited are disjoint and their union is the set of the ids of the graph's
\* vertices; the initialization makes unvisited that set and visited empty.
VisitedUnvisitedPartition ==
    /\ [](Searching =>
            /\ visited \cap unvisited = {}
            /\ visited \cup unvisited = VertexIds(vertices))
    /\ [][pc' = "loop" /\ pc # "loop" =>
            /\ unvisited' = VertexIds(vertices)
            /\ visited' = {}]_vars

\* C28 for the calls that do not raise.
PartitionUnlessRaised ==
    /\ []((Searching /\ pc # "raised") =>
            /\ visited \cap unvisited = {}
            /\ visited \cup unvisited = VertexIds(vertices))
    /\ [][pc' = "loop" /\ pc # "loop" =>
            /\ unvisited' = VertexIds(vertices)
            /\ visited' = {}]_vars

\* C29: when a call on two vertices of the graph returns, every vertex id of the
\* graph has moved from unvisited to visited.
EveryIdVisited ==
    (pc = "returned" /\ result.kind = "path")
        => /\ visited = VertexIds(vertices)
           /\ unvisited = {}

\* C29, amended: during a call every vertex id moves from unvisited to visited
\* at most once, one id per pass of the loop, and never moves back; when the
\* call returns a path the id of the destination has moved, and the ids that
\* have not moved are still in unvisited.
IdsMoveAtMostOnce ==
    /\ [][(pc = "loop" \/ pc = "reconstruct") =>
            /\ visited \subseteq visited'
            /\ unvisited' \subseteq unvisited
            /\ Cardinality((visited' \ visited) \cap VertexIds(vertices)) \in {0, 1}
            /\ \A n \in VertexIds(vertices) :
                   (n \in visited' /\ n \notin visited) => (n \in unvisited /\ n \notin unvisited')]_vars
    /\ []((pc = "returned" /\ result.kind = "path") =>
            /\ IdOf(dest) \in visited
            /\ unvisited = VertexIds(vertices) \ visited)

\* C29, amended, has happened: a call returned a path with the destination
\* visited while an id of the graph never left unvisited.
IdsMoveAtMostOnceWitness ==
    /\ pc = "returned"
    /\ result.kind = "path"
    /\ Len(result.path) >= 2
    /\ unvisited # {}

\* The lengths of the adjacent lists of the vertices of the graph.
Degrees == {Len(adjacent[vertices[i]]) : i \in 1..Len(vertices)}

\* C30: on a graph with at least one vertex find_max_degree returns the
\* greatest and find_min_degree the least len(adjacent) of the vertices of the
\* graph, and neither changes the graph.
DegreeQueries ==
    /\ [][(last'.op = "find_max_degree" /\ vertices # << >>) =>
            /\ last'.out = "int"
            /\ last'.val \in Degrees
            /\ \A n \in Degrees : n <= last'.val
            /\ UNCHANGED <<vertices, graph_weights, adjacent, weights, value>>]_vars
    /\ [][(last'.op = "find_min_degree" /\ vertices # << >>) =>
            /\ last'.out = "int"
            /\ last'.val \in Degrees
            /\ \A n \in Degrees : last'.val <= n
            /\ UNCHANGED <<vertices, graph_weights, adjacent, weights, value>>]_vars

\* C30 has happened: find_min_degree answered 1 on a graph whose vertices do
\* not all have the same degree.
DegreeQueriesWitness ==
    /\ last.op = "find_min_degree"
    /\ last.out = "int"
    /\ last.val = 1
    /\ Cardinality(Degrees) >= 2

\* C31: on a graph without vertices find_max_degree returns 0 and
\* find_min_degree returns infinity, which is not a finite number.
EmptyGraphDegrees ==
    /\ [][(last'.op = "find_max_degree" /\ vertices = << >>) =>
            /\ last'.out = "int"
            /\ last'.val = 0]_vars
    /\ [][(last'.op = "find_min_degree" /\ vertices = << >>) =>
            last'.out = "inf"]_vars

\* C31 has happened: find_min_degree answered infinity on a graph that had
\* vertices and lost them again.
EmptyGraphDegreesWitness ==
    /\ last.op = "find_min_degree"
    /\ last.out = "inf"
    /\ vertices = << >>
    /\ nops >= 3

\* C32: whenever the loop of dijkstra is about to run a pass (unvisited is not
\* empty), __min_distance returns an id that is in unvisited, also when every
\* remaining distance is infinite.
MinDistancePicksUnvisited ==
    (pc = "loop") =>
        /\ unvisited # {}
        /\ LET closest == min_scan(unvisited, distances, Inf, None)
           IN  closest \in unvisited

\* C33: every non-empty path dijkstra returns starts with source.id, ends with
\* dest.id, holds no id twice, and every two consecutive ids of it are the ids
\* of two vertices of the graph of which the first lists the second.
PathWellFormed ==
    (pc = "returned" /\ result.kind = "path" /\ result.path # << >>) =>
        LET path == result.path
        IN  /\ path[1] = IdOf(source)
            /\ path[Len(path)] = IdOf(dest)
            /\ \A i, j \in 1..Len(path) : path[i] = path[j] => i = j
            /\ \A i \in 1..(Len(path) - 1) :
                   \E A, B \in VSet :
                       /\ IdOf(A) = path[i]
                       /\ IdOf(B) = path[i + 1]
                       /\ IdOf(B) \in DOMAIN weights[A]
                       /\ \E k \in 1..Len(adjacent[A]) : IdOf(adjacent[A][k]) = IdOf(B)

\* C33 with the adjacency of two consecutive ids read by object: the first
\* vertex holds the second vertex of the graph itself in its adjacent list.
PathWellFormedByObject ==
    (pc = "returned" /\ result.kind = "path" /\ result.path # << >>) =>
        \A i \in 1..(Len(result.path) - 1) :
            \E A, B \in VSet :
                /\ IdOf(A) = result.path[i]
                /\ IdOf(B) = result.path[i + 1]
                /\ Lists(A, B)

\* C33 has happened: a path over three edges came back.
PathWellFormedWitness ==
    /\ pc = "returned"
    /\ result.kind = "path"
    /\ Len(result.path) >= 4

\* A search from a vertex of the graph is under way or has returned its path.
InSearch == InGraph(source) /\ (pc \in {"loop", "reconstruct"} \/ (pc = "returned" /\ result.kind = "path"))

\* C34: with non-negative weights, a vertex that has moved to visited with a
\* finite distance has its true shortest distance from the source recorded,
\* and the distance of a visited vertex never changes afterwards; so the
\* distance of the destination is final when the loop stops at it.
FinalWhenVisited ==
    /\ [](InSearch =>
            \A p \in VSet :
                (IdOf(p) \in visited /\ distances[IdOf(p)] # Inf)
                    => distances[IdOf(p)] = MinDist(source, p))
    /\ [][(pc = "loop" \/ pc = "reconstruct") =>
            \A n \in visited \cap VertexIds(vertices) : distances'[n] = distances[n]]_vars

\* C34 on the graphs in which no two vertices share an id and every vertex
\* listed by a vertex of the graph is itself in the graph.
NoOutsiders == \A p \in VSet : \A i \in 1..Len(adjacent[p]) : InGraph(adjacent[p][i])
FinalWhenVisitedCleanGraph ==
    /\ []((InSearch /\ UniqueIds /\ NoOutsiders) =>
            \A p \in VSet :
                (IdOf(p) \in visited /\ distances[IdOf(p)] # Inf)
                    => distances[IdOf(p)] = MinDist(source, p))
    /\ [][(pc = "loop" \/ pc = "reconstruct") =>
            \A n \in visited \cap VertexIds(vertices) : distances'[n] = distances[n]]_vars

\* The vertex the search uses for the id n: the last one of Graph.vertices.
VertexOf(n) == vertices[CHOOSE i \in 1..Len(vertices) :
                            IdOf(vertices[i]) = n /\ \A j \in (i + 1)..Len(vertices) : IdOf(vertices[j]) # n]

\* C35: at every step of the loop, for every vertex id v, prev[v] is None
\* exactly when v is the id of the source or distances[v] is infinite; when
\* prev[v] = u, u is visited, the vertex u holds v among its weights and its
\* adjacent vertices, and distances[v] = distances[u] + weight(u, v).  A
\* distance changes only to a strictly smaller value.
PrevAndDistances ==
    /\ []((pc \in {"loop", "reconstruct"} \/ (pc = "returned" /\ result.kind = "path")) =>
            \A v \in VertexIds(vertices) :
                /\ (prev[v] = None) <=> (v = IdOf(source) \/ distances[v] = Inf)
                /\ prev[v] # None =>
                       LET u == prev[v]
                       IN  /\ u \in visited
                           /\ u \in VertexIds(vertices)
                           /\ v \in DOMAIN weights[VertexOf(u)]
                           /\ \E k \in 1..Len(adjacent[VertexOf(u)]) :
                                  IdOf(adjacent[VertexOf(u)][k]) = v
                           /\ distances[u] # Inf
                           /\ distances[v] = distances[u] + weights[VertexOf(u)][v])
    /\ [][(pc = "loop" \/ pc = "reconstruct") =>
            \A v \in VertexIds(vertices) :
                distances'[v] # distances[v] =>
                    /\ distances'[v] # Inf
                    /\ distances[v] = Inf \/ distances'[v] < distances[v]]_vars

\* C35 has happened: a distance was lowered from one finite value to another
\* and the predecessor replaced.
PrevAndDistancesWitness ==
    /\ GraphIs(TestGraph)
    /\ pc = "loop"
    /\ prev[3] = 2
    /\ distances[3] = 36

\* C36: what a dijkstra call returns or raises depends on the graph, the source
\* and the destination only: after any calls on the same calculator, those
\* that returned early for an absent vertex or raised included, a call ends
\* as the same call on a fresh calculator ends.
ResultIsAFunction ==
    Finished => result = dijkstra(source, dest)

\* C36 has happened: a call has ended on a calculator that still holds the None
\* an earlier call added to visited before it raised.
ResultIsAFunctionWitness ==
    /\ pc = "returned"
    /\ None \in visited
    /\ source # dest

\* The sequence sq without the entries that are the object v.
Without(sq, v) == SelectSeq(sq, LAMBDA o : o # v)

\* C37: remove_vertex(v) leaves every edge between two vertices of the graph
\* other than v as it was (each still lists the other, with the same weight),
\* keeps every Graph.weights entry that does not name the id of v, and keeps
\* the other vertices in their order with their values; remove_edge(a, b)
\* leaves every edge other than the one between a and b, every Graph.weights
\* entry that does not name both ids, and Graph.vertices as they were.
RemoveOnlyNamed ==
    /\ [][last'.op = "remove_vertex" =>
            \A x \in GenArgs :
                Call_remove_vertex(x) =>
                    LET v == Resolve(vertices, x)
                    IN  /\ \A A, B \in VSet \ {v} :
                               Lists(A, B) =>
                                   /\ \E k \in 1..Len(adjacent'[A]) : adjacent'[A][k] = B
                                   /\ IdOf(B) \in DOMAIN weights'[A]
                                   /\ weights'[A][IdOf(B)] = weights[A][IdOf(B)]
                        /\ \A i \in 1..Len(graph_weights) :
                               (graph_weights[i][1][1] # ArgId(x) /\ graph_weights[i][1][2] # ArgId(x))
                                   => \E j \in 1..Len(graph_weights') :
                                          graph_weights'[j] = graph_weights[i]
                        /\ Without(vertices', v) = Without(vertices, v)
                        /\ value' = value]_vars
    /\ [][last'.op = "remove_edge" =>
            \A x1, x2 \in GenArgs :
                Call_remove_edge(x1, x2) =>
                    LET a == Resolve(vertices, x1)
                        b == Resolve(vertices, x2)
                    IN  /\ \A A, B \in VSet :
                               (Lists(A, B) /\ {A, B} # {a, b}) =>
                                   /\ \E k \in 1..Len(adjacent'[A]) : adjacent'[A][k] = B
                                   /\ IdOf(B) \in DOMAIN weights'[A]
                                   /\ weights'[A][IdOf(B)] = weights[A][IdOf(B)]
                        /\ \A i \in 1..Len(graph_weights) :
                               ~KeyHasBoth(graph_weights[i][1], ArgId(x1), ArgId(x2))
                                   => \E j \in 1..Len(graph_weights') :
                                          graph_weights'[j] = graph_weights[i]
                        /\ vertices' = vertices
                        /\ value' = value]_vars

\* C37 on the graphs in which no two vertices share an id and every vertex
\* listed is in the graph, for arguments that are ids or vertices of the graph.
RemoveOnlyNamedCleanGraph ==
    /\ [][last'.op = "remove_vertex" =>
            \A x \in GenArgs :
                (Call_remove_vertex(x) /\ UniqueIds /\ NoOutsiders) =>
                    LET v == Resolve(vertices, x)
                    IN  /\ \A A, B \in VSet \ {v} :
                               Lists(A, B) =>
                                   /\ \E k \in 1..Len(adjacent'[A]) : adjacent'[A][k] = B
                                   /\ IdOf(B) \in DOMAIN weights'[A]
                                   /\ weights'[A][IdOf(B)] = weights[A][IdOf(B)]
                        /\ \A i \in 1..Len(graph_weights) :
                               (graph_weights[i][1][1] # ArgId(x) /\ graph_weights[i][1][2] # ArgId(x))
                                   => \E j \in 1..Len(graph_weights') :
                                          graph_weights'[j] = graph_weights[i]
                        /\ Without(vertices', v) = Without(vertices, v)
                        /\ value' = value]_vars
    /\ [][last'.op = "remove_edge" =>
            \A x1, x2 \in GenArgs :
                (/\ Call_remove_edge(x1, x2)
                 /\ UniqueIds /\ NoOutsiders
                 /\ isinstance_int(x1) \/ InGraph(x1[2])
                 /\ isinstance_int(x2) \/ InGraph(x2[2])) =>
                    LET a == Resolve(vertices, x1)
                        b == Resolve(vertices, x2)
                    IN  /\ \A A, B \in VSet :
                               (Lists(A, B) /\ {A, B} # {a, b}) =>
                                   /\ \E k \in 1..Len(adjacent'[A]) : adjacent'[A][k] = B
                                   /\ IdOf(B) \in DOMAIN weights'[A]
                                   /\ weights'[A][IdOf(B)] = weights[A][IdOf(B)]
                        /\ \A i \in 1..Len(graph_weights) :
                               ~KeyHasBoth(graph_weights[i][1], ArgId(x1), ArgId(x2))
                                   => \E j \in 1..Len(graph_weights') :
                                          graph_weights'[j] = graph_weights[i]
                        /\ vertices' = vertices
                        /\ value' = value]_vars

\* C38: are_adjacent(v1, v2) returns False, raises nothing and changes nothing
\* when no vertex of the graph has the id of v1 or of v2; when both are present
\* are_adjacent(v1, v2) = are_adjacent(v2, v1), and the answer is the same for
\* the vertices and for their ids.
AreAdjacentContract ==
    /\ [](\A x1, x2 \in GenArgs :
            LET present(x) == \E i \in 1..Len(vertices) : IdOf(vertices[i]) = ArgId(x)
                answer == are_adjacent(vertices, adjacent, x1, x2)
            IN  IF ~present(x1) \/ ~present(x2)
                THEN answer = FALSE
                ELSE /\ answer = are_adjacent(vertices, adjacent, x2, x1)
                     /\ answer = are_adjacent(vertices, adjacent, IArg(ArgId(x1)), IArg(ArgId(x2))))
    /\ [][last'.op = "are_adjacent" =>
            /\ last'.out \in {"True", "False"}
            /\ UNCHANGED <<vertices, graph_weights, adjacent, weights, value>>]_vars

\* C38 where no same-id object from outside the graph is passed or listed and
\* no two vertices share an id.
AreAdjacentContractCleanGraph ==
    [](\A x1, x2 \in GenArgs :
          LET present(x) == \E i \in 1..Len(vertices) : IdOf(vertices[i]) = ArgId(x)
              answer == are_adjacent(vertices, adjacent, x1, x2)
          IN  IF ~present(x1) \/ ~present(x2)
              THEN answer = FALSE
              ELSE (/\ UniqueIds /\ NoOutsiders /\ SymmetryInvariant
                    /\ isinstance_int(x1) \/ InGraph(x1[2])
                    /\ isinstance_int(x2) \/ InGraph(x2[2]))
                   => /\ answer = are_adjacent(vertices, adjacent, x2, x1)
                      /\ answer = are_adjacent(vertices, adjacent, IArg(ArgId(x1)), IArg(ArgId(x2))))

====
